---- MODULE Spec2Model ----
(***************************************************************************)
(* Session lifecycle of MCPClient (src/bridge/another_client.py).          *)
(*                                                                         *)
(* One MCPClient instance is shared by the caller tasks of an asyncio      *)
(* event loop.  A coroutine runs without interruption from one await that  *)
(* suspends to the next, so every action below is the code of one handler  *)
(* from the point where it is resumed (or called) to the point where it    *)
(* suspends again or returns to the caller task.  The transport contexts   *)
(* (sse_client / streamablehttp_client) and ClientSession belong to the    *)
(* mcp library: the model records the calls issued on them and lets every  *)
(* awaited library call answer with each outcome it can have.              *)
(***************************************************************************)
EXTENDS Integers, Sequences, FiniteSets, TLC

\* ---------------------------------------------------------------- bounds
\* Number of public operations the single caller of SpecSeq starts.
MaxOps == 3

\* Number of public operations the concurrent callers of Spec start in all.
ConcOps == 2

\* Number of list_tools / call_tool calls started on the Ready client of
\* SpecCalls.
CallOps == 3

\* Number of operations the caller of the scoped client (mcp_client.py)
\* starts.
ScopedOps == 2

\* Number of update_auth_value() calls and header derivations in SpecAuth.
AuthOps == 2

\* Number of operations the caller of SpecHeaders starts.
HeaderOps == 2

\* Number of list / call commands one interactive_loop() of SimpleClient
\* reads before it reads quit.
SimpleCmds == 2

\* Number of requests the server of mcp_server.py handles.
ServerOps == 1

\* Largest number a client passes to add_numbers.
MaxNumber == 1

\* Caller tasks of the event loop.
Tasks == {1, 2, 3}

\* The callers that run concurrently in Spec.
Callers == {1, 2}

None == 0

\* The timeout the caller of another_client.py configures (test(), line 225).
ClientTimeout == 10

\* The timeout _connect_sse hands to sse_client (line 114).
SseTimeout == 60

TransportKinds == {"sse", "http"}

\* What an awaited transport __aenter__ can answer inside connect():
\*   ok        the context is entered and yields the streams of its kind
\*   badshape  the context is entered but yields a tuple of another arity
\*   nostream  the context is entered but a yielded stream is falsy
\*   fail      __aenter__ raises
\*   timeout   asyncio.wait_for cancels the pending __aenter__
OpenResults == {"ok", "badshape", "nostream", "fail", "timeout"}

\* What an awaited session.initialize() can answer under asyncio.wait_for.
InitResults == {"ok", "fail", "timeout"}

\* mcp_client.py:68 and 79: the timeout both transports of the scoped client
\* are opened with.
ScopedTimeout == 60

\* mcp_client.py:131-187: the tool calls _test_get_current_time() makes
\* (three formats, echo, add_numbers, check_auth).
TestCalls == 6

\* What an awaited call without a surrounding wait_for can answer.
CallResults == {"ok", "fail"}

\* What the server answers to a request: an exception of the session call,
\* a ListToolsResult with its tools, a CallToolResult with its isError flag.
Failure == [kind |-> "fail", tools |-> <<>>, isError |-> FALSE]

Bodies(op) ==
    IF op = "list_tools"
    THEN { [kind |-> "result", tools |-> ts, isError |-> FALSE] :
               ts \in {<<>>, <<"tool">>} } \cup {Failure}
    ELSE { [kind |-> "result", tools |-> <<>>, isError |-> e] :
               e \in BOOLEAN } \cup {Failure}

\* The value a list_tools() / call_tool() call hands to its caller.
NoValue == [is |-> "none", items |-> <<>>, of |-> None, isError |-> FALSE]

VARIABLES
    self,       \* the fields of the MCPClient instance
    ctxs,       \* every transport context created so far, by identity
    sessions,   \* every ClientSession constructed so far, by identity
    tasks,      \* per caller task: position in the code and its locals
    lastDone,   \* name of the operation that returned most recently
    withDone,   \* transport contexts whose `async with` statement is over
    cmUsed,     \* an __aenter__ or __aexit__ call has been started
    opsLeft,    \* number of public operations the callers may still start
    sc,         \* the scoped client of mcp_client.py and its caller
    auth,       \* the raw credential last given and the headers derived
    srv         \* the server of mcp_server.py: its last request and result

vars == <<self, ctxs, sessions, tasks, lastDone, withDone, cmUsed, opsLeft,
          sc, auth, srv>>

\* ------------------------------------------------------- data of the model
\* mcp_server.py:34-38: the members of MCPAuth; "none" also stands for an
\* auth_type of None.
AuthTypes == {"none", "api_key", "bearer_token", "basic"}

\* Strings are sequences of tokens, so that prefixing and encoding are
\* injective.  Absent is Python's None, <<>> the empty string; both are
\* falsy.
Absent == <<"None">>

Falsy(v) == v \in {Absent, <<>>}

\* another_client.py:16 and mcp_client.py:12: the default dummy token.
Token == <<"sk-1234">>

\* The credentials the callers use.
Credentials == {Absent, <<>>, <<"alice:secret">>, Token}

\* another_client.py:20-22: base64 of the value; the encoding of the empty
\* string is the empty string.
to_basic_auth(v) == IF v = <<>> THEN <<>> ELSE <<"base64">> \o v

\* another_client.py:170-177: what update_auth_value() stores.
UpdateAuthValue(auth_type, v) ==
    IF auth_type = "basic" THEN to_basic_auth(v) ELSE v

\* another_client.py:179-190: the headers derived from the stored value.
GetAuthHeaders(auth_type, stored) ==
    IF Falsy(stored) THEN {}
    ELSE IF auth_type = "bearer_token"
         THEN {<<"Authorization", <<"Bearer">> \o stored>>}
    ELSE IF auth_type = "basic"
         THEN {<<"Authorization", <<"Basic">> \o stored>>}
    ELSE IF auth_type = "api_key"
         THEN {<<"X-API-Key", stored>>}
    ELSE {}

\* mcp_client.py:29-44: the headers derived from the auth_passthrough
\* argument.
ScopedGetAuthHeaders(auth_type, auth_passthrough) ==
    IF Falsy(auth_passthrough) THEN {}
    ELSE IF auth_type = "bearer_token"
         THEN {<<"Authorization", <<"Bearer">> \o auth_passthrough>>}
    ELSE IF auth_type = "basic"
         THEN {<<"Authorization",
                 <<"Basic">> \o to_basic_auth(auth_passthrough)>>}
    ELSE IF auth_type = "api_key"
         THEN {<<"X-API-Key", auth_passthrough>>}
    ELSE {}

\* The credential bookkeeping: the raw credential the caller gave the
\* MCPClient of another_client.py last and the way it reached the client;
\* of the last derivation, the scheme, the raw credential it was made for,
\* the way that credential came and the headers.
NewAuth(raw, budget) ==
    [ raw |-> raw, via |-> "constructor", scheme |-> "none",
      given |-> Absent, path |-> "none",
      headers |-> {}, derived |-> FALSE, left |-> budget ]

\* MCPClient.__init__: every handle is None.
NewClient(tt) ==
    [ transport_type  |-> tt,
      auth_type       |-> "bearer_token",
      timeout         |-> ClientTimeout,
      _mcp_auth_value |-> Token,
      _session        |-> None,
      _read_stream    |-> None,
      _write_stream   |-> None,
      _get_session_id |-> None,
      _context        |-> None,
      _transport_ctx  |-> None,
      _transport      |-> None,
      _session_ctx    |-> None ]

\* A transport context object (the value sse_client(...) or
\* streamablehttp_client(...) returns), with the calls issued on it.
\* headers is the header set it was created with, cred the auth_type and
\* the stored credential of the client at that moment.
NewCtx(kind, by, timeout, headers, cred) ==
    [ kind |-> kind, by |-> by, timeout |-> timeout,
      headers |-> headers, cred |-> cred,
      entered |-> FALSE, exits |-> 0 ]

\* The auth_type and the stored credential of the client.
Cred(client) ==
    [ auth_type |-> client.auth_type, value |-> client._mcp_auth_value ]

\* A ClientSession object built over the streams of channel c.
NewSession(c, by, openNow) ==
    [ ctx |-> c, by |-> by, chans |-> openNow, entered |-> FALSE,
      init |-> "none", closes |-> 0, exits |-> 0, closeErr |-> FALSE,
      sent |-> FALSE, sentUninit |-> FALSE, sentEnded |-> FALSE,
      nextId |-> 1, pending |-> {} ]

IdleTask ==
    [ pc |-> "idle", op |-> "none", caller |-> FALSE, ctx |-> None, ses |-> None,
      out |-> "none", conn |-> "none", req |-> None, td |-> <<>>,
      prev |-> "none", pre |-> NewClient("http"), withCtx |-> None,
      cause |-> "none", msg |-> "none",
      prevOut |-> "none", prevCause |-> "none",
      reqId |-> None, ret |-> NoValue, prevRet |-> NoValue ]

EnteredCtxs(cs) == { c \in 1..Len(cs) : cs[c].entered }

\* The state a handler works on: the shared objects and the running task.
St(t) ==
    [ self |-> self, ctxs |-> ctxs, sessions |-> sessions, tk |-> tasks[t],
      lastDone |-> lastDone, withDone |-> withDone, me |-> t ]

Install(t, s) ==
    /\ self' = s.self
    /\ ctxs' = s.ctxs
    /\ sessions' = s.sessions
    /\ tasks' = [tasks EXCEPT ![t] = s.tk]
    /\ lastDone' = s.lastDone
    /\ withDone' = s.withDone
    /\ UNCHANGED <<sc, auth, srv>>

\* The public operation of task s.tk returns (out = "ok") or raises.
Return(s, out) ==
    [s EXCEPT !.tk.pc = "idle", !.tk.out = out, !.lastDone = s.tk.op]

\* ------------------------------------------------------------- disconnect
\* another_client.py:166-168, then back in the caller: disconnect() itself
\* returns normally; inside connect()'s except clauses (lines 100-105) the
\* handler goes on to raise ConnectionError.
DisconnectFinish(s) ==
    LET s1 == [s EXCEPT !.self._read_stream = None,
                        !.self._write_stream = None,
                        !.self._get_session_id = None]
    IN  IF s.tk.op = "disconnect" THEN Return(s1, "ok")
        ELSE Return([s1 EXCEPT !.tk.conn = "failed"], "ConnectionError")

\* another_client.py:159-161: the channel close is issued when a context is
\* held; the coroutine then waits for it.
DisconnectContext(s) ==
    IF s.self._context # None
    THEN LET c == s.self._context
         IN  [s EXCEPT !.ctxs[c].exits = @ + 1,
                       !.tk.td = Append(@, <<"channel", c>>),
                       !.tk.pc = "d_ctx"]
    ELSE DisconnectFinish(s)

\* disconnect() releasing in the wrong order: the channel close is issued
\* before the session close.
DisconnectEntry_ChannelFirst(s) ==
    LET c  == s.self._context
        s1 == IF c # None
              THEN [s EXCEPT !.ctxs[c].exits = @ + 1,
                             !.tk.td = Append(@, <<"channel", c>>),
                             !.self._context = None]
              ELSE s
    IN  IF s1.self._session # None
        THEN LET x == s1.self._session
             IN  [s1 EXCEPT !.sessions[x].closes = @ + 1,
                            !.tk.td = Append(@, <<"session", x>>),
                            !.tk.ses = x,
                            !.tk.pc = "d_sess"]
        ELSE DisconnectContext(s1)

\* another_client.py:152-154: the session close is issued when a session is
\* held; the coroutine then waits for it.
DisconnectEntry(s) ==
    IF s.self._session # None
    THEN LET x == s.self._session
         IN  [s EXCEPT !.sessions[x].closes = @ + 1,
                       !.tk.td = Append(@, <<"session", x>>),
                       !.tk.ses = x,
                       !.tk.pc = "d_sess"]
    ELSE DisconnectContext(s)

\* another_client.py:155-157: whatever session.close() answered, the field
\* is cleared and the code goes on to the context.
DisconnectSessionClosed(s, r) ==
    DisconnectContext(
        [s EXCEPT !.sessions[s.tk.ses].closeErr = (@ \/ r = "fail"),
                  !.self._session = None])

\* disconnect() forgetting to clear self._context after the channel close.
DisconnectContextClosed_KeepsContext(s, r) ==
    DisconnectFinish(s)

\* another_client.py:162-168: whatever __aexit__ answered, the field is
\* cleared and the stream handles are dropped.
DisconnectContextClosed(s, r) ==
    DisconnectFinish([s EXCEPT !.self._context = None])

\* ------------------------------------------------- list_tools / call_tool
\* A session has ended once a close or an exit was issued on it or on the
\* channel whose streams it was built over.
Ended(s, x) ==
    \/ s.sessions[x].closes > 0
    \/ s.sessions[x].exits > 0
    \/ (s.sessions[x].ctx # None /\ s.ctxs[s.sessions[x].ctx].exits > 0)

\* The pending-calls table of a session: the caller that waits for the
\* response with identifier id.
Waiter(pending, id) ==
    (CHOOSE p \in pending : p.id = id).task

\* another_client.py:197 and 211-214: the request is issued on whatever
\* self._session holds at that moment, and its answer is awaited.  The
\* session gives the request the next identifier and enters the caller in
\* its pending-calls table.
Request(s) ==
    IF s.self._session = None
    THEN Return(s, "AttributeError")
    ELSE LET x  == s.self._session
             id == s.sessions[x].nextId
         IN  [s EXCEPT !.sessions[x].sent = TRUE,
                       !.sessions[x].sentUninit =
                           (@ \/ s.sessions[x].init # "ok"),
                       !.sessions[x].sentEnded = (@ \/ Ended(s, x)),
                       !.sessions[x].nextId = @ + 1,
                       !.sessions[x].pending =
                           @ \cup {[id |-> id, task |-> s.me]},
                       !.tk.req = x,
                       !.tk.reqId = id,
                       !.tk.pc = "req"]

\* another_client.py:198-200: result.tools when it is non-empty, else the
\* result object itself.
ListToolsReturn(id, body) ==
    IF body.tools # <<>>
    THEN [is |-> "list", items |-> body.tools, of |-> id, isError |-> FALSE]
    ELSE [is |-> "ListToolsResult", items |-> body.tools, of |-> id,
          isError |-> FALSE]

\* another_client.py:211-215: the CallToolResult as the session returned it.
CallToolReturn(id, body) ==
    [is |-> "CallToolResult", items |-> <<>>, of |-> id,
     isError |-> body.isError]

\* call_tool() forgetting the session when the call raised.
RequestAnswered_DropsSession(s, r) ==
    LET x  == s.tk.req
        s1 == [s EXCEPT !.sessions[x].pending =
                            { p \in @ : p.id # r.id }]
    IN  IF r.body.kind = "fail"
        THEN Return([s1 EXCEPT !.tk.cause = "tool",
                               !.self._session = None], "error")
        ELSE Return([s1 EXCEPT !.tk.ret =
                                   IF s.tk.op = "list_tools"
                                   THEN ListToolsReturn(r.id, r.body)
                                   ELSE CallToolReturn(r.id, r.body)], "ok")

\* call_tool() handing out the result of the request issued last on the
\* session instead of the one its own await returned.
RequestAnswered_LatestResult(s, r) ==
    LET x  == s.tk.req
        s1 == [s EXCEPT !.sessions[x].pending =
                            { p \in @ : p.id # r.id }]
        id == s.sessions[x].nextId - 1
    IN  IF r.body.kind = "fail"
        THEN Return([s1 EXCEPT !.tk.cause = "tool"], "error")
        ELSE Return([s1 EXCEPT !.tk.ret =
                                   IF s.tk.op = "list_tools"
                                   THEN ListToolsReturn(id, r.body)
                                   ELSE CallToolReturn(id, r.body)], "ok")

\* another_client.py:197-200 and 211-215 resumed by the session: the
\* response r (identifier and body) leaves the pending-calls table; its
\* value is handed to the caller, an exception of the session call
\* propagates.
RequestAnswered(s, r) ==
    LET x  == s.tk.req
        s1 == [s EXCEPT !.sessions[x].pending =
                            { p \in @ : p.id # r.id }]
    IN  IF r.body.kind = "fail"
        THEN Return([s1 EXCEPT !.tk.cause = "tool"], "error")
        ELSE Return([s1 EXCEPT !.tk.ret =
                                   IF s.tk.op = "list_tools"
                                   THEN ListToolsReturn(r.id, r.body)
                                   ELSE CallToolReturn(r.id, r.body)], "ok")

\* connect() returned normally: to the caller task, or into list_tools() /
\* call_tool() (lines 195 and 209), which go on to the request.
ConnectReturned(s) ==
    IF s.tk.op = "connect" THEN Return(s, "ok") ELSE Request(s)

\* ---------------------------------------------------------------- connect
\* The except clauses of connect(), lines 100-105: asyncio.TimeoutError gets
\* the "timed out" message, every other exception "Failed to connect"; both
\* call disconnect() and raise ConnectionError.  `cause` records the step
\* that failed.
ConnectFailed(s, cause, r) ==
    DisconnectEntry([s EXCEPT !.tk.cause = cause,
                              !.tk.msg = IF r = "timeout" THEN "timed out"
                                         ELSE "failed to connect"])

\* another_client.py:96-98: the session is constructed over the stream
\* fields, stored, and initialize() is awaited under wait_for.
ConnectMakeSession(s) ==
    LET x == Len(s.sessions) + 1
        n == [NewSession(s.self._read_stream, "connect",
                         EnteredCtxs(s.ctxs)) EXCEPT !.init = "pending"]
    IN  [s EXCEPT !.sessions = Append(@, n),
                  !.self._session = x,
                  !.tk.ses = x,
                  !.tk.pc = "c_init"]

\* another_client.py:107-120 and 122-148 resumed by the transport's
\* __aenter__, then connect() lines 82-94 on the value they return.
ConnectOpened(s, r) ==
    LET c    == s.tk.ctx
        kind == s.ctxs[c].kind
        in1  == [s EXCEPT !.ctxs[c].entered = TRUE]
    IN  CASE r \in {"fail", "timeout"} ->
               \* nothing was entered; except clause, lines 100-105
               ConnectFailed(s, "open", r)
          [] r = "badshape" /\ kind = "http" ->
               \* line 148: raised before self._context is stored
               ConnectFailed(in1, "open", r)
          [] r = "badshape" /\ kind = "sse" ->
               \* line 119 stored the context; the unpacking of line 82 fails
               ConnectFailed([in1 EXCEPT !.self._context = c], "open", r)
          [] r = "nostream" ->
               \* lines 93-94: a falsy stream
               ConnectFailed(
                   [in1 EXCEPT !.self._context = c,
                               !.self._read_stream = None,
                               !.self._write_stream = c,
                               !.self._get_session_id =
                                   IF kind = "http" THEN c ELSE @],
                   "open", r)
          [] OTHER ->
               ConnectMakeSession(
                   [in1 EXCEPT !.self._context = c,
                               !.self._read_stream = c,
                               !.self._write_stream = c,
                               !.self._get_session_id =
                                   IF kind = "http" THEN c ELSE @])

\* session.initialize() answered, lines 98-105.
ConnectInitialized(s, r) ==
    LET x == s.tk.ses
    IN  IF r = "ok"
        THEN ConnectReturned([s EXCEPT !.sessions[x].init = "ok",
                                       !.tk.conn = "ok"])
        ELSE ConnectFailed([s EXCEPT !.sessions[x].init = "failed"],
                           "handshake", r)

\* connect() without the `if self._session: return` guard.
ConnectEntry_NoGuard(s) ==
    LET c == Len(s.ctxs) + 1
    IN  [s EXCEPT !.ctxs = Append(@, NewCtx(s.self.transport_type, "connect",
                                            s.self.timeout,
                                            GetAuthHeaders(
                                                s.self.auth_type,
                                                s.self._mcp_auth_value),
                                            Cred(s.self))),
                  !.tk.ctx = c,
                  !.tk.pc = "c_open"]

\* another_client.py:77-91 and 107-118 / 122-136: the guard, then the
\* context of the configured transport is created and its __aenter__ awaited.
ConnectEntry(s) ==
    IF s.self._session # None
    THEN ConnectReturned([s EXCEPT !.tk.conn = "noop"])
    ELSE LET c == Len(s.ctxs) + 1
         IN  [s EXCEPT !.ctxs =
                           Append(@, NewCtx(s.self.transport_type, "connect",
                                            IF s.self.transport_type = "sse"
                                            THEN SseTimeout
                                            ELSE s.self.timeout,
                                            GetAuthHeaders(
                                                s.self.auth_type,
                                                s.self._mcp_auth_value),
                                            Cred(s.self))),
                       !.tk.ctx = c,
                       !.tk.pc = "c_open"]

\* list_tools() / call_tool() without the implicit connect.
ToolEntry_NoConnect(s) ==
    Request(s)

\* another_client.py:194-195 and 208-209: connect first when no session is
\* held, else go straight to the request.
ToolEntry(s) ==
    IF s.self._session = None THEN ConnectEntry(s) ELSE Request(s)

\* ------------------------------------------------- __aenter__ / __aexit__
\* another_client.py:60: the header set __aenter__ writes out itself.
AEnterHeaders(stored) ==
    {<<"Authorization", <<"Bearer">> \o stored>>}

\* another_client.py:57-62: a streaming-HTTP context is created, stored and
\* its __aenter__ awaited.
AEnterEntry(s) ==
    LET c == Len(s.ctxs) + 1
    IN  [s EXCEPT !.ctxs = Append(@, NewCtx("http", "__aenter__",
                                            s.self.timeout,
                                            AEnterHeaders(
                                                s.self._mcp_auth_value),
                                            Cred(s.self))),
                  !.self._transport_ctx = c,
                  !.tk.ctx = c,
                  !.tk.pc = "ae_open"]

\* another_client.py:62-64: the streams are stored, the session is built
\* over them and its __aenter__ awaited.  A raising transport __aenter__
\* propagates out of MCPClient.__aenter__.
AEnterOpened(s, r) ==
    IF r = "fail" THEN Return(s, "error")
    ELSE LET c  == s.tk.ctx
             s1 == [s EXCEPT !.ctxs[c].entered = TRUE, !.self._transport = c]
             x  == Len(s.sessions) + 1
         IN  [s1 EXCEPT !.sessions =
                            Append(@, NewSession(s1.self._transport,
                                                 "__aenter__",
                                                 EnteredCtxs(s1.ctxs))),
                        !.self._session_ctx = x,
                        !.tk.ses = x,
                        !.tk.pc = "ae_sess"]

\* another_client.py:64-65: the entered session is stored and initialize()
\* awaited on it.  When the session's __aenter__ raises, the exception leaves
\* MCPClient.__aenter__ and the `async with` statement runs no __aexit__.
AEnterSessionEntered(s, r) ==
    IF r = "fail"
    THEN Return([s EXCEPT !.withDone = @ \cup {s.tk.ctx}], "error")
    ELSE LET x == s.tk.ses
         IN  [s EXCEPT !.sessions[x].entered = TRUE,
                       !.sessions[x].init = "pending",
                       !.self._session = x,
                       !.tk.pc = "ae_init"]

\* another_client.py:65-66: return self, or the exception of initialize()
\* leaves MCPClient.__aenter__.
AEnterInitialized(s, r) ==
    LET x == s.tk.ses
    IN  IF r = "ok"
        THEN Return([s EXCEPT !.sessions[x].init = "ok",
                              !.tk.withCtx = s.tk.ctx], "ok")
        ELSE Return([s EXCEPT !.sessions[x].init = "failed",
                              !.withDone = @ \cup {s.tk.ctx}], "error")

\* __aexit__ returns or raises; it ends the `async with` statement of the
\* caller when the caller is inside one.
AExitDone(s, out) ==
    Return([s EXCEPT !.withDone =
                         IF s.tk.withCtx # None THEN @ \cup {s.tk.withCtx}
                         ELSE @,
                     !.tk.withCtx = None], out)

\* another_client.py:72-73: the transport exit is issued when a transport
\* context is stored.
AExitTransport(s) ==
    IF s.self._transport_ctx # None
    THEN LET c == s.self._transport_ctx
         IN  [s EXCEPT !.ctxs[c].exits = @ + 1,
                       !.tk.td = Append(@, <<"channel", c>>),
                       !.tk.pc = "ax_ctx"]
    ELSE AExitDone(s, "ok")

\* another_client.py:70-71: the session exit is issued on self._session_ctx
\* when self._session is set; with no _session_ctx the attribute access on
\* None raises.
AExitEntry(s) ==
    IF s.self._session # None
    THEN IF s.self._session_ctx = None
         THEN AExitDone(s, "AttributeError")
         ELSE LET x == s.self._session_ctx
              IN  [s EXCEPT !.sessions[x].exits = @ + 1,
                            !.tk.td = Append(@, <<"session", x>>),
                            !.tk.ses = x,
                            !.tk.pc = "ax_sess"]
    ELSE AExitTransport(s)

\* another_client.py:71-72: an exception of the session exit leaves
\* __aexit__; else the code goes on to the transport.
AExitSessionExited(s, r) ==
    IF r = "fail"
    THEN AExitDone([s EXCEPT !.sessions[s.tk.ses].closeErr = TRUE], "error")
    ELSE AExitTransport(s)

\* another_client.py:73: the transport exit answered.
AExitTransportExited(s, r) ==
    AExitDone(s, IF r = "ok" THEN "ok" ELSE "error")

\* ------------------------------------------- the server (mcp_server.py)
\* mcp_server.py:71-122: the tools list_tools() advertises, in order.
ServerListTools ==
    << [name |-> "echo", required |-> {"message"}],
       [name |-> "get_current_time", required |-> {}],
       [name |-> "add_numbers", required |-> {"a", "b"}] >>

\* The tool names a client asks for: those of mcp_client.py:136-187 (one of
\* them, check_auth, the server does not have) and an unknown one.
ToolNames ==
    {"get_current_time", "echo", "add_numbers", "check_auth", "nope"}

\* The arguments a client passes: any subset of the keys of the input
\* schemas, with values of the types the schemas name.
Arguments ==
    { [keys |-> ks, message |-> "Hello", format |-> f, a |-> x, b |-> y] :
          ks \in SUBSET {"message", "format", "a", "b"},
          f \in {"short", "long", "iso", "other"},
          x \in 0..MaxNumber, y \in 0..MaxNumber }

\* dict.get(key, default).
Get(arguments, key, default) ==
    IF key \in arguments.keys THEN arguments[key] ELSE default

\* mcp_server.py:150-156: the format string of the time.
TimeFormat(format_type) ==
    IF format_type = "short" THEN "%H:%M"
    ELSE IF format_type = "long" THEN "%Y-%m-%d %H:%M:%S"
    ELSE IF format_type = "iso" THEN "isoformat"
    ELSE "%H:%M"

\* One TextContent item.
TextContent(text) == [type |-> "text", text |-> text]

\* What a handler hands back: a list of content items, or an exception.
Returned(content) == [ok |-> TRUE, content |-> content, error |-> "none"]

Raised(error) == [ok |-> FALSE, content |-> <<>>, error |-> error]

\* call_tool() without the add_numbers branch.
ServerCallTool_NoAddNumbers(name, arguments) ==
    IF name = "echo"
    THEN Returned(<<TextContent(<<"Echo:", Get(arguments, "message", "")>>)>>)
    ELSE IF name = "get_current_time"
    THEN Returned(<<TextContent(
                      <<TimeFormat(Get(arguments, "format", "short"))>>)>>)
    ELSE Raised("Unknown tool")

\* mcp_server.py:125-175: call_tool() dispatches on the name.
ServerCallTool(name, arguments) ==
    IF name = "echo"
    THEN Returned(<<TextContent(<<"Echo:", Get(arguments, "message", "")>>)>>)
    ELSE IF name = "get_current_time"
    THEN Returned(<<TextContent(
                      <<TimeFormat(Get(arguments, "format", "short"))>>)>>)
    ELSE IF name = "add_numbers"
    THEN LET a == Get(arguments, "a", 0)
             b == Get(arguments, "b", 0)
         IN  Returned(<<TextContent(<<"The sum is", a, b, a + b>>)>>)
    ELSE Raised("Unknown tool")

\* The server before its first request; left is the number of requests it
\* still handles.
NewServer(budget) ==
    [ op |-> "none", name |-> "none",
      arguments |-> [keys |-> {}, message |-> "Hello", format |-> "short",
                     a |-> 0, b |-> 0],
      listed |-> <<>>,
      result |-> Raised("none"), left |-> budget ]

\* ----------- the scoped clients (mcp_client.py and python-client/main.py)
\* The two classes that hold their session inside `async with` scopes.
Variants == {"MCPClient", "SimpleClient"}

\* main.py:113-155: what interactive_loop() can read: quit (or an
\* interrupt, or the end of the input), list, call, and an input that makes
\* input() raise some other exception.
Commands == {"quit", "list", "call", "raise"}

\* mcp_client.py:18-27 and main.py:14-17: a constructed client, with the channels and
\* sessions its operations create (by identity) and the position and locals
\* of its one caller; left is the number of operations the caller may
\* still start.
NewScoped(tt, budget) ==
    [ variant |-> "MCPClient", cmds |-> 0,
      transport_type |-> tt, auth_type |-> "bearer_token",
      session |-> None,
      chans |-> <<>>, sess |-> <<>>,
      pc |-> "idle", op |-> "none", ch |-> None, se |-> None,
      i |-> 0, failed |-> 0, sentOn |-> {}, tested |-> FALSE,
      guarded |-> FALSE, exc |-> FALSE, escaped |-> FALSE,
      left |-> budget ]

\* The caller starts operation op of the scoped client.
ScopedCall(c, op) ==
    [c EXCEPT !.op = op, !.ch = None, !.se = None, !.i = 0, !.failed = 0,
              !.sentOn = {}, !.tested = FALSE, !.guarded = FALSE,
              !.exc = FALSE, !.escaped = FALSE, !.left = @ - 1]

\* An operation of the scoped client returns to its caller; every one of
\* them returns None.
ScopedReturn(c) ==
    [c EXCEPT !.pc = "idle"]

\* The session object x of the scoped client has been exited.
ScopedEnded(c, x) ==
    c.sess[x].exits > 0 \/ c.chans[c.sess[x].chan].exits > 0

\* mcp_client.py:112, 136, 157, 171, 185: a request is issued on whatever
\* self.session holds.
ScopedSend(c, pc) ==
    LET x == c.session
    IN  [c EXCEPT !.sess[x].sent = TRUE,
                  !.sess[x].sentEnded = (@ \/ ScopedEnded(c, x)),
                  !.sentOn = @ \cup {x},
                  !.pc = pc]

\* mcp_client.py:54-61: connect_and_test() catches every Exception of the
\* connection, prints it and returns.
ConnectAndTestDone(c) ==
    ScopedReturn([c EXCEPT !.escaped = FALSE])

\* The names of the operations in the two classes.
ConnectOp(c) ==
    IF c.variant = "MCPClient" THEN "connect_and_test" ELSE "connect"

ListOp(c) ==
    IF c.variant = "MCPClient" THEN "_list_tools" ELSE "list_tools"

\* mcp_client.py:46-53, 63-72, 74-83 and main.py:19-38: connect_and_test()
\* / connect() enters the transport of the configured kind.
ConnectAndTest(c) ==
    LET c1 == ScopedCall(c, ConnectOp(c))
    IN  [c1 EXCEPT !.chans = Append(@, [kind |-> c.transport_type,
                                        timeout |-> ScopedTimeout,
                                        entered |-> FALSE, exits |-> 0]),
                   !.ch = Len(c.chans) + 1,
                   !.pc = "s_open"]

\* mcp_client.py:72 and 83 left, normally or by an exception: the
\* `async with` of the transport exits the channel.
ScopedChannelExit(c) ==
    [c EXCEPT !.chans[c.ch].exits = @ + 1, !.pc = "s_cx"]

\* mcp_client.py:103 left, normally or by an exception: the `async with`
\* of the ClientSession exits the session.
ScopedSessionExit(c) ==
    [c EXCEPT !.sess[c.se].exits = @ + 1, !.pc = "s_sx"]

\* mcp_client.py:66-72, 77-83, 88: the transport's __aenter__ answered.
\* On success _run_session() constructs the ClientSession and enters it;
\* on failure nothing was entered and the exception reaches
\* connect_and_test().
TransportEntered(c, r) ==
    IF r = "ok"
    THEN [c EXCEPT !.chans[c.ch].entered = TRUE,
                   !.sess = Append(@, [chan |-> c.ch, entered |-> FALSE,
                                       init |-> "no", exits |-> 0,
                                       sent |-> FALSE,
                                       sentEnded |-> FALSE]),
                   !.se = Len(c.sess) + 1,
                   !.pc = "s_enter"]
    ELSE ConnectAndTestDone([c EXCEPT !.exc = TRUE])

\* mcp_client.py:88-91: the session's __aenter__ answered; self.session is
\* set and initialize() awaited.  A failed __aenter__ is not paired with an
\* __aexit__; the exception leaves the transport's `async with`.
ScopedSessionEntered(c, r) ==
    IF r = "ok"
    THEN [c EXCEPT !.sess[c.se].entered = TRUE,
                   !.session = c.se,
                   !.pc = "s_init"]
    ELSE ScopedChannelExit([c EXCEPT !.exc = TRUE])

\* mcp_client.py:105-112: _list_tools() returns after a print when
\* self.session is unset, else it issues the request.
ListToolsEntry(c) ==
    IF c.session = None
    THEN ScopedReturn([c EXCEPT !.guarded = TRUE])
    ELSE ScopedSend(c, "s_list")

\* mcp_client.py:125-138: _test_get_current_time() returns after a print
\* when self.session is unset, else it issues its first call.
TestEntry(c) ==
    IF c.session = None
    THEN ScopedReturn([c EXCEPT !.guarded = TRUE])
    ELSE ScopedSend([c EXCEPT !.i = 1], "s_call")

\* main.py:104-116: interactive_loop() waits for a command.
InteractiveLoop(c) ==
    [c EXCEPT !.pc = "s_cmd"]

\* A session body that returns on a failed handshake without leaving the
\* two `async with` scopes.
ScopedInitialized_NoExit(c, r) ==
    IF r = "ok"
    THEN IF c.variant = "MCPClient"
         THEN ListToolsEntry([c EXCEPT !.sess[c.se].init = "ok"])
         ELSE InteractiveLoop([c EXCEPT !.sess[c.se].init = "ok",
                                        !.cmds = SimpleCmds])
    ELSE ConnectAndTestDone([c EXCEPT !.sess[c.se].init = "failed",
                                      !.exc = TRUE])

\* mcp_client.py:91-100 and main.py:50-62: initialize() answered; on
\* success the body goes on to _list_tools() (MCPClient) or to
\* interactive_loop() (SimpleClient), on failure the exception leaves the
\* session's `async with`.
ScopedInitialized(c, r) ==
    IF r = "ok"
    THEN IF c.variant = "MCPClient"
         THEN ListToolsEntry([c EXCEPT !.sess[c.se].init = "ok"])
         ELSE InteractiveLoop([c EXCEPT !.sess[c.se].init = "ok",
                                        !.cmds = SimpleCmds])
    ELSE ScopedSessionExit([c EXCEPT !.sess[c.se].init = "failed",
                                     !.exc = TRUE])

\* mcp_client.py:112-123 and 100-103: list_tools() answered; an exception
\* is caught and printed.  Inside connect_and_test() the body goes on to
\* _test_get_current_time().
ListToolsAnswered(c, body) ==
    IF c.op = ListOp(c)
    THEN ScopedReturn(c)
    ELSE IF c.variant = "MCPClient"
         THEN TestEntry(c)
         ELSE InteractiveLoop(c)

\* main.py:84-92: call_tool() returns after a print when self.session is
\* unset, else it issues the request.
SimpleCallEntry(c) ==
    IF c.session = None
    THEN ScopedReturn([c EXCEPT !.guarded = TRUE])
    ELSE ScopedSend(c, "s_tool")

\* main.py:92-102: call_tool() answered; an exception is caught and
\* printed.  Inside interactive_loop() the next command is read.
SimpleCallAnswered(c, body) ==
    IF c.op = "call_tool"
    THEN ScopedReturn(c)
    ELSE InteractiveLoop(c)

\* main.py:113-155: interactive_loop() read a command.  quit, an interrupt
\* and the end of the input leave the loop and with it the session's
\* `async with`; any other exception of input() leaves it raising.
Commanded(c, cmd) ==
    IF cmd = "quit" THEN ScopedSessionExit(c)
    ELSE IF cmd = "raise" THEN ScopedSessionExit([c EXCEPT !.exc = TRUE])
    ELSE IF cmd = "list"
         THEN ListToolsEntry([c EXCEPT !.cmds = @ - 1])
    ELSE SimpleCallEntry([c EXCEPT !.cmds = @ - 1])

\* _test_get_current_time() giving up at the first call that fails.
TestCallAnswered_StopOnFailure(c, body) ==
    LET bad == body.kind = "fail" \/ body.isError
        c1  == [c EXCEPT !.failed = IF bad THEN @ + 1 ELSE @]
    IN  IF c.i < TestCalls /\ ~bad
        THEN ScopedSend([c1 EXCEPT !.i = @ + 1], "s_call")
        ELSE IF c.op = "_test_get_current_time"
             THEN ScopedReturn([c1 EXCEPT !.tested = TRUE])
             ELSE ScopedSessionExit([c1 EXCEPT !.tested = TRUE])

\* mcp_client.py:133-198: a call_tool() of _test_get_current_time()
\* answered; an exception is caught and printed, and the next call is
\* issued.  After the last one the function returns; inside
\* connect_and_test() that ends the session's `async with`.
TestCallAnswered(c, body) ==
    LET bad == body.kind = "fail" \/ body.isError
        c1  == [c EXCEPT !.failed = IF bad THEN @ + 1 ELSE @]
    IN  IF c.i < TestCalls
        THEN ScopedSend([c1 EXCEPT !.i = @ + 1], "s_call")
        ELSE IF c.op = "_test_get_current_time"
             THEN ScopedReturn([c1 EXCEPT !.tested = TRUE])
             ELSE ScopedSessionExit([c1 EXCEPT !.tested = TRUE])

\* mcp_client.py:88-103: the session's __aexit__ answered; the transport's
\* `async with` is left next.
ScopedSessionExited(c, r) ==
    ScopedChannelExit([c EXCEPT !.exc = (@ \/ r = "fail")])

\* mcp_client.py:66-72, 77-83 and 54-61: the transport's __aexit__
\* answered; connect_and_test() returns.
ScopedChannelExited(c, r) ==
    ConnectAndTestDone([c EXCEPT !.exc = (@ \/ r = "fail")])

\* ------------------------------------------------------------ the actions
\* A caller task that is idle starts a public operation.
Begin(t, op) ==
    /\ tasks[t].pc = "idle"
    /\ tasks[t].caller
    /\ opsLeft > 0
    /\ opsLeft' = opsLeft - 1

Fresh(t, op) ==
    [St(t) EXCEPT !.tk = [IdleTask EXCEPT !.op = op, !.pc = "run",
                                          !.caller = TRUE,
                                          !.prev = lastDone,
                                          !.pre = self,
                                          !.prevOut = tasks[t].out,
                                          !.prevCause = tasks[t].cause,
                                          !.prevRet = tasks[t].ret,
                                          !.withCtx = tasks[t].withCtx]]

\* A caller calls connect().
Connect(t) ==
    /\ Begin(t, "connect")
    /\ Install(t, ConnectEntry(Fresh(t, "connect")))
    /\ UNCHANGED cmUsed

\* The transport's __aenter__ answers the connect() that waits for it.
ConnectOpen(t) ==
    /\ tasks[t].pc = "c_open"
    /\ \E r \in OpenResults : Install(t, ConnectOpened(St(t), r))
    /\ UNCHANGED <<cmUsed, opsLeft>>

\* session.initialize() answers the connect() that waits for it.
ConnectInit(t) ==
    /\ tasks[t].pc = "c_init"
    /\ \E r \in InitResults : Install(t, ConnectInitialized(St(t), r))
    /\ UNCHANGED <<cmUsed, opsLeft>>

\* A caller calls disconnect().
Disconnect(t) ==
    /\ Begin(t, "disconnect")
    /\ Install(t, DisconnectEntry(Fresh(t, "disconnect")))
    /\ UNCHANGED cmUsed

\* session.close() answers the disconnect() that waits for it.
DisconnectSession(t) ==
    /\ tasks[t].pc = "d_sess"
    /\ \E r \in CallResults : Install(t, DisconnectSessionClosed(St(t), r))
    /\ UNCHANGED <<cmUsed, opsLeft>>

\* The transport's __aexit__ answers the disconnect() that waits for it.
DisconnectChannel(t) ==
    /\ tasks[t].pc = "d_ctx"
    /\ \E r \in CallResults : Install(t, DisconnectContextClosed(St(t), r))
    /\ UNCHANGED <<cmUsed, opsLeft>>

\* A caller calls list_tools().
ListTools(t) ==
    /\ Begin(t, "list_tools")
    /\ Install(t, ToolEntry(Fresh(t, "list_tools")))
    /\ UNCHANGED cmUsed

\* A caller calls call_tool().
CallTool(t) ==
    /\ Begin(t, "call_tool")
    /\ Install(t, ToolEntry(Fresh(t, "call_tool")))
    /\ UNCHANGED cmUsed

\* A response of the server arrives on a session: the session looks up the
\* caller that waits for its identifier and resumes it.
Answer(t) ==
    /\ tasks[t].pc = "req"
    /\ \E x \in 1..Len(sessions) :
         \E p \in sessions[x].pending :
           /\ Waiter(sessions[x].pending, p.id) = t
           /\ \E body \in Bodies(tasks[t].op) :
                Install(t, RequestAnswered(St(t), [id |-> p.id,
                                                   body |-> body]))
    /\ UNCHANGED <<cmUsed, opsLeft>>

\* A caller (an `async with` statement) calls __aenter__().
AEnter(t) ==
    /\ Begin(t, "__aenter__")
    /\ Install(t, AEnterEntry(Fresh(t, "__aenter__")))
    /\ cmUsed' = TRUE

AEnterOpen(t) ==
    /\ tasks[t].pc = "ae_open"
    /\ \E r \in CallResults : Install(t, AEnterOpened(St(t), r))
    /\ UNCHANGED <<cmUsed, opsLeft>>

AEnterSession(t) ==
    /\ tasks[t].pc = "ae_sess"
    /\ \E r \in CallResults : Install(t, AEnterSessionEntered(St(t), r))
    /\ UNCHANGED <<cmUsed, opsLeft>>

AEnterInit(t) ==
    /\ tasks[t].pc = "ae_init"
    /\ \E r \in CallResults : Install(t, AEnterInitialized(St(t), r))
    /\ UNCHANGED <<cmUsed, opsLeft>>

\* A caller (the end of an `async with` block, or explicitly) calls
\* __aexit__().
AExit(t) ==
    /\ Begin(t, "__aexit__")
    /\ Install(t, AExitEntry(Fresh(t, "__aexit__")))
    /\ cmUsed' = TRUE

AExitSession(t) ==
    /\ tasks[t].pc = "ax_sess"
    /\ \E r \in CallResults : Install(t, AExitSessionExited(St(t), r))
    /\ UNCHANGED <<cmUsed, opsLeft>>

AExitChannel(t) ==
    /\ tasks[t].pc = "ax_ctx"
    /\ \E r \in CallResults : Install(t, AExitTransportExited(St(t), r))
    /\ UNCHANGED <<cmUsed, opsLeft>>

\* The lifecycle client of another_client.py is left alone.
ScopedStep(c) ==
    /\ sc' = c
    /\ UNCHANGED <<self, ctxs, sessions, tasks, lastDone, withDone, cmUsed,
                   opsLeft, auth, srv>>

ScopedBegin ==
    /\ sc.pc = "idle"
    /\ sc.left > 0

\* The caller calls connect_and_test().
ScConnectAndTest ==
    /\ ScopedBegin
    /\ ScopedStep(ConnectAndTest(sc))

\* The transport's __aenter__ answers.
ScOpen ==
    /\ sc.pc = "s_open"
    /\ \E r \in CallResults : ScopedStep(TransportEntered(sc, r))

\* The session's __aenter__ answers.
ScEnter ==
    /\ sc.pc = "s_enter"
    /\ \E r \in CallResults : ScopedStep(ScopedSessionEntered(sc, r))

\* session.initialize() answers.
ScInit ==
    /\ sc.pc = "s_init"
    /\ \E r \in CallResults : ScopedStep(ScopedInitialized(sc, r))

\* The caller calls _list_tools() / list_tools().
ScListTools ==
    /\ ScopedBegin
    /\ ScopedStep(ListToolsEntry(ScopedCall(sc, ListOp(sc))))

\* session.list_tools() answers.
ScList ==
    /\ sc.pc = "s_list"
    /\ \E body \in Bodies("list_tools") :
           ScopedStep(ListToolsAnswered(sc, body))

\* The caller calls _test_get_current_time().
ScTestTools ==
    /\ ScopedBegin
    /\ sc.variant = "MCPClient"
    /\ ScopedStep(TestEntry(ScopedCall(sc, "_test_get_current_time")))

\* session.call_tool() answers.
ScCall ==
    /\ sc.pc = "s_call"
    /\ \E body \in Bodies("call_tool") :
           ScopedStep(TestCallAnswered(sc, body))

\* interactive_loop() of SimpleClient reads a command; after SimpleCmds
\* list / call commands it reads one that ends the loop.
ScCommand ==
    /\ sc.pc = "s_cmd"
    /\ \E cmd \in (IF sc.cmds > 0 THEN Commands ELSE {"quit", "raise"}) :
           ScopedStep(Commanded(sc, cmd))

\* The caller calls call_tool() of SimpleClient.
ScCallTool ==
    /\ ScopedBegin
    /\ sc.variant = "SimpleClient"
    /\ ScopedStep(SimpleCallEntry(ScopedCall(sc, "call_tool")))

\* session.call_tool() answers the call_tool() of SimpleClient.
ScTool ==
    /\ sc.pc = "s_tool"
    /\ \E body \in Bodies("call_tool") :
           ScopedStep(SimpleCallAnswered(sc, body))

\* The session's __aexit__ answers.
ScSessionExit ==
    /\ sc.pc = "s_sx"
    /\ \E r \in CallResults : ScopedStep(ScopedSessionExited(sc, r))

\* The transport's __aexit__ answers.
ScChannelExit ==
    /\ sc.pc = "s_cx"
    /\ \E r \in CallResults : ScopedStep(ScopedChannelExited(sc, r))

InitWith(callers, budget) ==
    /\ \E tt \in TransportKinds : self = NewClient(tt)
    /\ ctxs = <<>>
    /\ sessions = <<>>
    /\ tasks = [t \in Tasks |-> [IdleTask EXCEPT !.caller = (t \in callers)]]
    /\ opsLeft = budget
    /\ lastDone = "none"
    /\ withDone = {}
    /\ cmUsed = FALSE
    /\ sc = NewScoped("http", 0)
    /\ auth = NewAuth(Token, 0)
    /\ srv = NewServer(0)

\* Concurrent callers on one freshly constructed client.
Init == InitWith(Callers, ConcOps)

\* A single caller on one freshly constructed client.
InitSeq == InitWith({1}, MaxOps)

Next ==
    \E t \in Tasks :
        \/ Connect(t)
        \/ ConnectOpen(t)
        \/ ConnectInit(t)
        \/ Disconnect(t)
        \/ DisconnectSession(t)
        \/ DisconnectChannel(t)
        \/ ListTools(t)
        \/ CallTool(t)
        \/ Answer(t)
        \/ AEnter(t)
        \/ AEnterOpen(t)
        \/ AEnterSession(t)
        \/ AEnterInit(t)
        \/ AExit(t)
        \/ AExitSession(t)
        \/ AExitChannel(t)

Spec == Init /\ [][Next]_vars

\* The client after a connect() of caller 1 that opened the channel and
\* completed the handshake.
ReadyState(tt) ==
    LET s0 == [ self |-> NewClient(tt), ctxs |-> <<>>, sessions |-> <<>>,
                tk |-> [IdleTask EXCEPT !.op = "connect", !.pc = "run",
                                        !.caller = TRUE,
                                        !.pre = NewClient(tt)],
                lastDone |-> "none", withDone |-> {}, me |-> 1 ]
    IN  ConnectInitialized(ConnectOpened(ConnectEntry(s0), "ok"), "ok")

\* Callers with a budget of operations on one Ready client.
InitReadyWith(callers, budget) ==
    \E tt \in TransportKinds :
        LET s == ReadyState(tt)
        IN  /\ self = s.self
            /\ ctxs = s.ctxs
            /\ sessions = s.sessions
            /\ tasks = [t \in Tasks |->
                           IF t = 1 THEN [s.tk EXCEPT !.caller = TRUE]
                           ELSE [IdleTask EXCEPT !.caller = (t \in callers)]]
            /\ opsLeft = budget
            /\ lastDone = s.lastDone
            /\ withDone = s.withDone
            /\ cmUsed = FALSE
            /\ sc = NewScoped("http", 0)
            /\ auth = NewAuth(Token, 0)
            /\ srv = NewServer(0)

\* Concurrent callers of list_tools() / call_tool() on one Ready client.
InitReady == InitReadyWith(Tasks, CallOps)

NextCalls ==
    \E t \in Tasks :
        \/ ListTools(t)
        \/ CallTool(t)
        \/ Answer(t)

SpecCalls == InitReady /\ [][NextCalls]_vars

SpecSeq == InitSeq /\ [][Next]_vars

\* another_client.py:80-83: the transport's __aenter__ hands out its
\* streams without a message of the server, or the wait_for around it
\* expires.
TimerOpen(t) ==
    /\ tasks[t].pc = "c_open"
    /\ \E r \in {"ok", "timeout"} : Install(t, ConnectOpened(St(t), r))
    /\ UNCHANGED <<cmUsed, opsLeft>>

\* another_client.py:95-98: the wait_for around initialize() expires.
TimerInit(t) ==
    /\ tasks[t].pc = "c_init"
    /\ Install(t, ConnectInitialized(St(t), "timeout"))
    /\ UNCHANGED <<cmUsed, opsLeft>>

\* What resumes a waiting caller when the server sends nothing: the timers
\* of the two wait_for calls and the local teardown.  list_tools() and
\* call_tool() (another_client.py:197, 211-214) await the session without a
\* wait_for, so nothing resumes them.
SilentStep(t) ==
    \/ TimerOpen(t)
    \/ TimerInit(t)
    \/ DisconnectSession(t)
    \/ DisconnectChannel(t)

\* One caller on a Ready client whose server has stopped responding.
InitSilent == InitReadyWith({1}, MaxOps)

NextSilent ==
    \E t \in Tasks :
        \/ Connect(t)
        \/ Disconnect(t)
        \/ ListTools(t)
        \/ CallTool(t)
        \/ SilentStep(t)

\* The event loop runs every timer that expired and every local step that
\* can proceed.
SpecSilent ==
    InitSilent /\ [][NextSilent]_vars /\ \A t \in Tasks : WF_vars(SilentStep(t))

\* One caller on a freshly constructed scoped client.
InitScoped ==
    /\ self = NewClient("http")
    /\ ctxs = <<>>
    /\ sessions = <<>>
    /\ tasks = [t \in Tasks |-> IdleTask]
    /\ opsLeft = 0
    /\ lastDone = "none"
    /\ withDone = {}
    /\ cmUsed = FALSE
    /\ \E tt \in TransportKinds, v \in Variants :
           sc = [NewScoped(tt, ScopedOps) EXCEPT !.variant = v]
    /\ auth = NewAuth(Token, 0)
    /\ srv = NewServer(0)

NextScoped ==
    \/ ScConnectAndTest
    \/ ScOpen
    \/ ScEnter
    \/ ScInit
    \/ ScListTools
    \/ ScList
    \/ ScTestTools
    \/ ScCall
    \/ ScCommand
    \/ ScCallTool
    \/ ScTool
    \/ ScSessionExit
    \/ ScChannelExit

SpecScoped == InitScoped /\ [][NextScoped]_vars

\* A caller starts an operation on the credential.
AuthStep(a) ==
    /\ auth.left > 0
    /\ auth' = [a EXCEPT !.left = auth.left - 1]
    /\ UNCHANGED <<ctxs, sessions, tasks, lastDone, withDone, cmUsed,
                   opsLeft, sc, srv>>

\* The caller calls update_auth_value(v).
AuthUpdate ==
    \E v \in Credentials \ {Absent} :
        /\ self' = [self EXCEPT !._mcp_auth_value =
                                    UpdateAuthValue(self.auth_type, v)]
        /\ AuthStep([auth EXCEPT !.raw = v, !.via = "update_auth_value",
                                 !.derived = FALSE])

\* connect() derives the headers of the client (another_client.py:110,
\* 125).
AuthHeaders ==
    /\ UNCHANGED self
    /\ AuthStep([auth EXCEPT !.scheme = self.auth_type,
                             !.given = auth.raw,
                             !.path = auth.via,
                             !.headers = GetAuthHeaders(self.auth_type,
                                                        self._mcp_auth_value),
                             !.derived = TRUE])

\* connect_and_test(auth_passthrough) derives the headers of the scoped
\* client (mcp_client.py:66, 77).
AuthPassthrough ==
    \E v \in Credentials :
        /\ UNCHANGED self
        /\ AuthStep([auth EXCEPT !.given = v, !.path = "auth_passthrough",
                                 !.scheme = sc.auth_type,
                                 !.headers = ScopedGetAuthHeaders(
                                                 sc.auth_type, v),
                                 !.derived = TRUE])

\* Clients constructed with any auth scheme and any credential.
InitAuth ==
    \E a \in AuthTypes, v \in Credentials :
        /\ self = [NewClient("http") EXCEPT !.auth_type = a,
                                            !._mcp_auth_value = v]
        /\ ctxs = <<>>
        /\ sessions = <<>>
        /\ tasks = [t \in Tasks |-> IdleTask]
        /\ opsLeft = 0
        /\ lastDone = "none"
        /\ withDone = {}
        /\ cmUsed = FALSE
        /\ sc = [NewScoped("http", 0) EXCEPT !.auth_type = a]
        /\ auth = NewAuth(v, AuthOps)
        /\ srv = NewServer(0)

NextAuth ==
    \/ AuthUpdate
    \/ AuthHeaders
    \/ AuthPassthrough

SpecAuth == InitAuth /\ [][NextAuth]_vars

\* One caller on a client constructed with any auth scheme and any
\* credential, who may also call update_auth_value() once.
InitHeaders ==
    \E tt \in TransportKinds, a \in AuthTypes, v \in Credentials :
        /\ self = [NewClient(tt) EXCEPT !.auth_type = a,
                                        !._mcp_auth_value = v]
        /\ ctxs = <<>>
        /\ sessions = <<>>
        /\ tasks = [t \in Tasks |-> [IdleTask EXCEPT !.caller = (t = 1)]]
        /\ opsLeft = HeaderOps
        /\ lastDone = "none"
        /\ withDone = {}
        /\ cmUsed = FALSE
        /\ sc = NewScoped("http", 0)
        /\ auth = NewAuth(v, 1)
        /\ srv = NewServer(0)

NextHeaders == Next \/ AuthUpdate

SpecHeaders == InitHeaders /\ [][NextHeaders]_vars

\* The server handles a request; the clients are left alone.
ServerStep(v) ==
    /\ srv.left > 0
    /\ srv' = [v EXCEPT !.left = srv.left - 1]
    /\ UNCHANGED <<self, ctxs, sessions, tasks, lastDone, withDone, cmUsed,
                   opsLeft, sc, auth>>

\* A tools/list request arrives.
SrvList ==
    ServerStep([srv EXCEPT !.op = "list_tools",
                           !.listed = ServerListTools])

\* A tools/call request arrives.
SrvCall ==
    \E name \in ToolNames, arguments \in Arguments :
        ServerStep([srv EXCEPT !.op = "call_tool", !.name = name,
                               !.arguments = arguments,
                               !.result = ServerCallTool(name, arguments)])

\* The server of mcp_server.py, started.
InitServer ==
    /\ self = NewClient("http")
    /\ ctxs = <<>>
    /\ sessions = <<>>
    /\ tasks = [t \in Tasks |-> IdleTask]
    /\ opsLeft = 0
    /\ lastDone = "none"
    /\ withDone = {}
    /\ cmUsed = FALSE
    /\ sc = NewScoped("http", 0)
    /\ auth = NewAuth(Token, 0)
    /\ srv = NewServer(ServerOps)

NextServer ==
    \/ SrvList
    \/ SrvCall

SpecServer == InitServer /\ [][NextServer]_vars

\* Either client variant, driven by one caller.
InitAll == InitSeq \/ InitScoped

NextAll == Next \/ NextScoped

SpecAll == InitAll /\ [][NextAll]_vars

\* ------------------------------------------------------------- properties
ToolOps == {"list_tools", "call_tool"}

Quiet == \A t \in Tasks : tasks[t].pc = "idle"

CtxIds == 1..Len(ctxs)

SessionIds == 1..Len(sessions)

\* Transport contexts that were entered and on which no exit was issued.
OpenCtxs == { c \in CtxIds : ctxs[c].entered /\ ctxs[c].exits = 0 }

\* Sessions that were handed to initialize() and neither failed it nor had
\* a close or an exit issued on them.
LiveSessions ==
    { x \in SessionIds : /\ sessions[x].init \in {"pending", "ok"}
                         /\ sessions[x].closes = 0
                         /\ sessions[x].exits = 0 }

RECURSIVE SumExits(_)
SumExits(n) == IF n = 0 THEN 0 ELSE ctxs[n].exits + SumExits(n - 1)

NoHandles(c) ==
    /\ c._session = None
    /\ c._context = None
    /\ c._read_stream = None
    /\ c._write_stream = None
    /\ c._get_session_id = None

\* C1: after a sequence of connect / list_tools / call_tool / disconnect
\* calls that ends with disconnect, the number of exits issued on transport
\* contexts equals the number of transport contexts that were entered.
C1_NoLeak ==
    (Quiet /\ ~cmUsed /\ lastDone = "disconnect")
        => SumExits(Len(ctxs)) = Cardinality(EnteredCtxs(ctxs))

\* C2: when connect() has raised, the channel it opened has been closed and
\* all five handles of the client are None.
C2_FailedConnectClosed ==
    \A t \in Tasks :
        LET tk == tasks[t]
        IN  (tk.op = "connect" /\ tk.pc = "idle" /\ tk.out = "ConnectionError")
                => /\ NoHandles(self)
                   /\ (tk.ctx # None /\ ctxs[tk.ctx].entered)
                          => ctxs[tk.ctx].exits = 1

\* C3: once an `async with` statement on the client is over, the transport
\* context its __aenter__ entered has been exited exactly once.
C3_WithClosedOnce ==
    \A c \in withDone : ctxs[c].entered => ctxs[c].exits = 1

\* C5: at most one transport channel of the client is open and at most one
\* session is live.
C5_AtMostOne ==
    /\ Cardinality(OpenCtxs) <= 1
    /\ Cardinality(LiveSessions) <= 1

\* C6: with callers running connect() concurrently (directly or through
\* list_tools / call_tool), at most one handshake is running, a connect()
\* that has returned normally finds the handshake of the held session
\* finished, and the open channel of every session under way is the one
\* self._context holds.
C6_SingleConnect ==
    ~cmUsed =>
        /\ Cardinality({ t \in Tasks : tasks[t].pc = "c_init" }) <= 1
        /\ \A t \in Tasks :
               (tasks[t].op = "connect" /\ tasks[t].pc = "idle"
                    /\ tasks[t].out = "ok" /\ self._session # None)
                   => sessions[self._session].init = "ok"
        /\ \A x \in LiveSessions :
               sessions[x].ctx \in OpenCtxs => self._context = sessions[x].ctx

\* C7: no list_tools / call_tool request is issued on a session whose
\* initialize() has not completed successfully.
C7_HandshakeFirst ==
    ~cmUsed => \A x \in SessionIds : ~sessions[x].sentUninit

\* C9: connect() never returns as a no-op on a session that has ended, and
\* no request is issued on a session that has ended.
C9_NoStaleSession ==
    /\ \A t \in Tasks :
           (tasks[t].op = "connect" /\ tasks[t].pc = "idle"
                /\ tasks[t].conn = "noop" /\ self._session # None)
               => ~Ended(St(t), self._session)
    /\ \A x \in SessionIds : ~sessions[x].sentEnded

\* C4: disconnect() never raises and leaves all five handles None; a
\* disconnect() that directly follows a disconnect() issues no session close
\* and no channel close and leaves every field of the client as it was.
C4_DisconnectIdempotent ==
    \A t \in Tasks :
        LET tk == tasks[t]
        IN  (tk.op = "disconnect" /\ tk.pc = "idle")
                => /\ tk.out = "ok"
                   /\ NoHandles(self)
                   /\ tk.prev = "disconnect"
                          => (tk.td = <<>> /\ self = tk.pre)

\* A second disconnect() in a row has returned after the first one closed a
\* session and a channel.
C4_Witness ==
    \E t \in Tasks :
        /\ tasks[t].op = "disconnect" /\ tasks[t].pc = "idle"
        /\ tasks[t].prev = "disconnect"
        /\ \E x \in SessionIds : sessions[x].closes = 1
        /\ \E c \in CtxIds : ctxs[c].exits = 1

\* C8: list_tools() / call_tool() started with no session held runs
\* connect() first; when that connect succeeds the request goes out on the
\* session it established, the answer of the session is the outcome of the
\* call and the client holds that session afterwards; when it fails the
\* caller gets the ConnectionError and no request goes out.
C8_ImplicitConnect ==
    \A t \in Tasks :
        LET tk == tasks[t]
        IN  (tk.op \in ToolOps /\ tk.pre._session = None)
                => /\ tk.pc \in {"c_open", "c_init", "d_sess", "d_ctx"}
                          => (tk.conn = "none" /\ tk.req = None)
                   /\ tk.pc \in {"req", "idle"}
                          => tk.conn \in {"ok", "failed"}
                   /\ tk.conn = "ok"
                          => /\ tk.req = tk.ses
                             /\ sessions[tk.req].by = "connect"
                             /\ sessions[tk.req].init = "ok"
                             /\ ~sessions[tk.req].sentUninit
                             /\ ~sessions[tk.req].sentEnded
                             /\ self._session = tk.req
                             /\ tk.pc = "idle" => tk.out \in {"ok", "error"}
                   /\ tk.conn = "failed"
                          => /\ tk.pc = "idle"
                             /\ tk.out = "ConnectionError"
                             /\ tk.req = None

\* call_tool() on a client that was disconnected has connected, sent its
\* request and returned the answer.
C8_Witness ==
    \E t \in Tasks :
        /\ tasks[t].op = "call_tool" /\ tasks[t].pc = "idle"
        /\ tasks[t].prev = "disconnect"
        /\ tasks[t].pre._session = None
        /\ tasks[t].conn = "ok" /\ tasks[t].out = "ok"
        /\ tasks[t].req = self._session

\* The close calls one teardown has issued, in the order of issue.
SessionsClosedBy(td) == { td[i][2] : i \in { j \in 1..Len(td) : td[j][1] = "session" } }

ChannelsClosedBy(td) == { td[i][2] : i \in { j \in 1..Len(td) : td[j][1] = "channel" } }

\* C10: a teardown issues no channel close before a session close; the
\* channel it closes had been opened when the session it closes was
\* constructed, and every session is built over a channel opened before.
C10_ReleaseOrder ==
    /\ \A t \in Tasks :
           LET td == tasks[t].td
           IN  /\ \A i, j \in 1..Len(td) :
                      (i < j /\ td[i][1] = "channel") => td[j][1] # "session"
               /\ \A x \in SessionsClosedBy(td) :
                      \A c \in ChannelsClosedBy(td) :
                          ctxs[c].entered => c \in sessions[x].chans
    /\ \A x \in SessionIds :
           /\ sessions[x].ctx # None
           /\ sessions[x].ctx \in sessions[x].chans

\* A teardown has closed a session and then a channel.
C10_Witness ==
    \E t \in Tasks :
        /\ tasks[t].pc = "idle"
        /\ Len(tasks[t].td) = 2
        /\ tasks[t].td[1][1] = "session"
        /\ tasks[t].td[2][1] = "channel"
        /\ ctxs[tasks[t].td[2][2]].entered

\* C11: in a teardown whose session close raised while a channel was held,
\* the channel close is still issued, and disconnect() does not raise.
C11_CloseErrorKeepsRelease ==
    \A t \in Tasks :
        LET tk   == tasks[t]
            held == IF tk.op = "disconnect" THEN tk.pre._context
                    ELSE tk.pre._transport_ctx
        IN  (tk.op \in {"disconnect", "__aexit__"} /\ tk.pc = "idle"
                 /\ held # None
                 /\ \E x \in SessionsClosedBy(tk.td) : sessions[x].closeErr)
                => /\ held \in ChannelsClosedBy(tk.td)
                   /\ tk.op = "disconnect" => tk.out = "ok"

\* C18: connect() on a client that holds an initialised session returns
\* normally at once, creates no transport context, starts no handshake,
\* issues no close and leaves every field of the client as it was.
C18_ConnectNoop ==
    \A t \in Tasks :
        LET tk == tasks[t]
        IN  (tk.op = "connect" /\ tk.pre._session # None
                 /\ sessions[tk.pre._session].init = "ok")
                => /\ tk.pc = "idle"
                   /\ tk.out = "ok"
                   /\ tk.conn = "noop"
                   /\ tk.ctx = None
                   /\ tk.ses = None
                   /\ tk.td = <<>>
                   /\ self = tk.pre

\* connect() has returned on a client that an earlier connect() made Ready.
C18_Witness ==
    \E t \in Tasks :
        /\ tasks[t].op = "connect" /\ tasks[t].pc = "idle"
        /\ tasks[t].prev = "connect"
        /\ tasks[t].conn = "noop"
        /\ self._session # None
        /\ sessions[self._session].init = "ok"
        /\ sessions[self._session].by = "connect"

\* C20: every channel the client has opened is of the transport kind chosen
\* at construction and was created with the client's configured timeout.
C20_ConfiguredTransport ==
    \A c \in EnteredCtxs(ctxs) :
        /\ ctxs[c].kind = self.transport_type
        /\ ctxs[c].timeout = self.timeout

\* C14: two operations that failed in different ways (channel not opened,
\* handshake failed, tool call failed) do not end with the same error kind.
C14_DistinctErrorKinds ==
    \A t \in Tasks :
        LET tk == tasks[t]
        IN  (tk.pc = "idle" /\ tk.cause # "none" /\ tk.prevCause # "none"
                 /\ tk.cause # tk.prevCause)
                => tk.out # tk.prevOut

\* C16: list_tools() that returns normally hands out the sequence of tools
\* the server reported, the empty sequence when it reported none.
C16_ListToolsSequence ==
    \A t \in Tasks :
        LET tk == tasks[t]
        IN  (tk.op = "list_tools" /\ tk.pc = "idle" /\ tk.out = "ok")
                => tk.ret.is = "list"

\* C19: of the call_tool() calls issued concurrently on one Ready session,
\* whose responses arrive in any order, each caller that gets a result gets
\* the result of its own request, never that of another caller's request.
C19_OwnResult ==
    \A t \in Tasks :
        LET tk == tasks[t]
        IN  (tk.op = "call_tool" /\ tk.pc = "idle" /\ tk.out = "ok")
                => /\ tk.ret.is = "CallToolResult"
                   /\ tk.ret.of = tk.reqId
                   /\ \A u \in Tasks \ {t} :
                          (tasks[u].op = "call_tool" /\ tasks[u].req = tk.req)
                              => tasks[u].reqId # tk.ret.of

\* A caller got its result while an earlier call_tool() of another caller
\* on the same session still waits for its response.
C19_Witness ==
    \E t \in Tasks, u \in Tasks :
        /\ t # u
        /\ tasks[t].op = "call_tool" /\ tasks[t].pc = "idle"
        /\ tasks[t].out = "ok"
        /\ tasks[u].op = "call_tool" /\ tasks[u].pc = "req"
        /\ tasks[u].req = tasks[t].req
        /\ tasks[u].reqId < tasks[t].reqId
        /\ sessions[tasks[t].req].init = "ok"

\* A call_tool() failed: session.call_tool raised, or the result reports a
\* tool error.
FailedCall(out, ret) == out = "error" \/ ret.isError

\* The client held an initialized session when the operation of tk started.
StartedReady(tk) ==
    /\ tk.pre._session # None
    /\ sessions[tk.pre._session].init = "ok"

\* C12: a call_tool() that fails on a Ready client leaves _session and
\* _context as they were and issues no close; the call_tool() that follows
\* it is sent on the same session without reconnecting; and in
\* _test_get_current_time() of the scoped client a failed call does not
\* stop the following calls, all on one session.
C12_FailedCallKeepsSession ==
    /\ \A t \in Tasks :
           LET tk == tasks[t]
           IN  /\ (tk.op = "call_tool" /\ tk.pc = "idle" /\ StartedReady(tk)
                       /\ FailedCall(tk.out, tk.ret))
                      => /\ self._session = tk.pre._session
                         /\ self._context = tk.pre._context
                         /\ tk.td = <<>>
                         /\ tk.conn = "none"
               /\ (tk.op = "call_tool" /\ tk.prev = "call_tool"
                       /\ StartedReady(tk)
                       /\ FailedCall(tk.prevOut, tk.prevRet))
                      => /\ tk.pc \in {"req", "idle"}
                         /\ tk.conn = "none"
                         /\ tk.req = tk.pre._session
    /\ (sc.tested /\ sc.failed > 0)
           => /\ sc.i = TestCalls
              /\ Cardinality(sc.sentOn) = 1

\* A call_tool() got its result on the session on which the call_tool()
\* before it had failed.
C12_Witness ==
    \E t \in Tasks :
        LET tk == tasks[t]
        IN  /\ tk.op = "call_tool" /\ tk.pc = "idle" /\ tk.out = "ok"
            /\ tk.prev = "call_tool" /\ tk.prevOut = "error"
            /\ StartedReady(tk)
            /\ tk.req = tk.pre._session
            /\ self._session = tk.req

\* _test_get_current_time() ran to its end although its first calls failed.
C12_ScopedWitness ==
    /\ sc.tested
    /\ sc.failed >= 2
    /\ sc.i = TestCalls

\* C17: a list-tools or call-tool operation started while the client has
\* no live session either connects first and then sends its request on the
\* session it established, or ends with an error its caller gets; no
\* request goes out on a session that has ended.  another_client.py: the
\* implicit connect; mcp_client.py: the `if not self.session` guard.
C17_NoSessionHandled ==
    /\ \A t \in Tasks :
           LET tk == tasks[t]
           IN  tk.op \in ToolOps
                   => /\ tk.req # None => ~sessions[tk.req].sentEnded
                      /\ (tk.pre._session = None /\ tk.pc = "idle")
                             => \/ tk.conn = "ok" /\ tk.req = tk.ses
                                \/ tk.out = "ConnectionError"
    /\ sc.op \in {"_list_tools", "_test_get_current_time"}
           => /\ \A x \in sc.sentOn : ~sc.sess[x].sentEnded
              /\ sc.guarded => sc.sentOn = {}

\* C13: against a server that never responds, every blocking operation
\* (channel open and handshake of connect(), list_tools(), call_tool())
\* eventually returns to its caller with a failure.
C13_BoundedBlocking ==
    \A t \in Tasks :
        (tasks[t].pc \in {"c_open", "c_init", "req"})
            ~> (tasks[t].pc = "idle" /\ tasks[t].out # "ok")

\* The headers the auth policy prescribes for a scheme and a raw
\* credential.
HeadersFor(scheme, raw) ==
    IF scheme = "none" \/ Falsy(raw) THEN {}
    ELSE IF scheme = "bearer_token"
         THEN {<<"Authorization", <<"Bearer">> \o raw>>}
    ELSE IF scheme = "basic"
         THEN {<<"Authorization", <<"Basic", "base64">> \o raw>>}
    ELSE {<<"X-API-Key", raw>>}

\* C15: whichever way the raw credential reached the client (constructor,
\* update_auth_value, auth_passthrough), the derived headers are {} for no
\* scheme or no credential, Bearer + raw, Basic + base64(raw) with the raw
\* value encoded exactly once, and X-API-Key: raw.
C15_DerivedHeaders ==
    auth.derived => auth.headers = HeadersFor(auth.scheme, auth.given)

\* C21: every channel the client opens, through connect() or through
\* __aenter__, is opened with the headers _get_auth_headers() derives from
\* the auth_type and the credential the client has at that moment; with no
\* auth scheme or no credential the header set is empty.
C21_ChannelHeaders ==
    \A c \in 1..Len(ctxs) :
        /\ ctxs[c].headers = GetAuthHeaders(ctxs[c].cred.auth_type,
                                            ctxs[c].cred.value)
        /\ (ctxs[c].cred.auth_type = "none" \/ Falsy(ctxs[c].cred.value))
               => ctxs[c].headers = {}

\* C22: in the scoped clients, on every exit path of connect_and_test() /
\* connect() every session that was entered is exited before its channel
\* and exactly once, every channel that was opened is closed exactly once,
\* and no exception leaves the operation.
C22_ScopedRelease ==
    /\ \A x \in 1..Len(sc.sess) :
           LET se == sc.sess[x]
           IN  /\ se.exits <= 1
               /\ ~se.entered => se.exits = 0
               /\ (se.entered /\ sc.chans[se.chan].exits > 0)
                      => se.exits > 0
               /\ (se.entered /\ sc.pc = "idle") => se.exits = 1
    /\ \A c \in 1..Len(sc.chans) :
           /\ sc.chans[c].exits <= 1
           /\ ~sc.chans[c].entered => sc.chans[c].exits = 0
           /\ (sc.chans[c].entered /\ sc.pc = "idle")
                  => sc.chans[c].exits = 1
    /\ sc.pc = "idle" => ~sc.escaped

\* connect_and_test() / connect() returned after an exception had left the
\* session body: the session and the channel were each exited once.
C22_Witness ==
    /\ sc.pc = "idle"
    /\ sc.op = ConnectOp(sc)
    /\ sc.exc
    /\ sc.se # None
    /\ sc.sess[sc.se].entered
    /\ sc.sess[sc.se].exits = 1
    /\ sc.chans[sc.ch].exits = 1

\* The names list_tools() advertises.
Advertised == { ServerListTools[i].name : i \in 1..Len(ServerListTools) }

\* C23: the names call_tool() dispatches to a handler are the names
\* list_tools() advertises, and these are pairwise distinct: call_tool()
\* returns a non-empty list of content items for every advertised name and
\* raises the unknown-tool error for every other name.
C23_DispatchMatchesList ==
    /\ srv.op = "list_tools"
           => /\ Len(srv.listed) > 0
              /\ \A i \in 1..Len(srv.listed), j \in 1..Len(srv.listed) :
                     i # j => srv.listed[i].name # srv.listed[j].name
    /\ srv.op = "call_tool"
           => IF srv.name \in Advertised
              THEN srv.result.ok /\ Len(srv.result.content) > 0
              ELSE ~srv.result.ok /\ srv.result.error = "Unknown tool"

\* add_numbers, the last name of the list, was called and answered.
C23_Witness ==
    /\ srv.op = "call_tool"
    /\ srv.name = ServerListTools[Len(ServerListTools)].name
    /\ srv.result.ok
    /\ Len(srv.result.content) = 1

\* C25: in the scoped clients self.session is set only while the session
\* scope is open: once connect_and_test() / connect() has returned it is
\* None, and a list or call operation started then is rejected by the
\* `if not self.session` guard and sends nothing.
C25_SessionFieldScoped ==
    /\ sc.pc = "idle" => sc.session = None
    /\ sc.op \in {ListOp(sc), "_test_get_current_time", "call_tool"}
           => /\ sc.sentOn = {}
              /\ sc.pc = "idle" => sc.guarded

\* C24: after disconnect() has returned the client holds no open channel
\* and no open session, whether connect() or __aenter__ acquired them; and
\* however disconnect() and __aexit__ are used one after the other, no
\* entered session context and no entered transport context is exited
\* twice, and once the teardown operations have run each has been exited.
C24_TeardownCoversBoth ==
    /\ \A t \in Tasks :
           (tasks[t].op = "disconnect" /\ tasks[t].pc = "idle")
               => /\ \A h \in {self._context, self._transport_ctx} \ {None} :
                         ctxs[h].entered => ctxs[h].exits > 0
                  /\ \A x \in {self._session, self._session_ctx} \ {None} :
                         Ended(St(t), x)
    /\ \A c \in CtxIds : ctxs[c].exits <= 1
    /\ \A x \in SessionIds : sessions[x].exits <= 1
    /\ \A t \in Tasks :
           (tasks[t].op \in {"disconnect", "__aexit__"}
                /\ tasks[t].pc = "idle"
                /\ tasks[t].prev \in {"disconnect", "__aexit__"}
                /\ tasks[t].prev # tasks[t].op)
               => /\ \A c \in CtxIds :
                         (ctxs[c].entered /\ ctxs[c].by = "__aenter__")
                             => ctxs[c].exits = 1
                  /\ \A x \in SessionIds :
                         (sessions[x].entered /\ sessions[x].by = "__aenter__")
                             => sessions[x].exits = 1
====
